---- MODULE Spec2Model ----
(***************************************************************************)
(* Model of OCRComparisonManager                                           *)
(* (src/modules/ocr_comparison/comparison_manager.py).                     *)
(*                                                                         *)
(* A text is a sequence of one-character strings; a token is the verbatim  *)
(* sub-sequence the tokenizer cut out of the text.  Sequence indices in    *)
(* ranges are Python's: 0-based and half-open, so a[i] of the source is    *)
(* a[i+1] here.  A float rate 2.0*M/T is kept as the exact fraction        *)
(* [num |-> 2*M, den |-> T]; 1.0 is 1/1 and 0.0 is 0/1.                    *)
(***************************************************************************)
EXTENDS Integers, Sequences, FiniteSets, TLC

VARIABLES
    comparison_history,  \* self.comparison_history
    ret,                 \* the values the last call returned; <<>> when it raised
    clock,               \* datetime.now()
    call,                \* the last call: its operation and arguments
    raised,              \* the exception the last call raised, "" when none
    error_log,           \* the messages passed to logger.error
    exported,            \* the file written by export_comparison_results
    threads,             \* the calls in flight when the manager is shared by threads
    app                  \* main.py: what a script run did, and st.session_state

vars == <<comparison_history, ret, clock, call, raised, error_log, exported,
          threads, app>>

\* ------------------------------------------------------------------ bounds
MaxWords == 3        \* longest token sequence of the enumerated word inputs
MaxChars == 3        \* longest text of the enumerated character inputs
MaxTokText == 4      \* longest text of the enumerated tokenizer inputs
MaxHistory == 2      \* calls made on one manager

\* --------------------------------------------------------------- alphabets
Letters ==
    {"a", "b", "c", "A", "B", "C", "X", "P", "H", "W", "d", "e", "g", "l", "o", "r"}
Digits == {"1"}
Connectors == {"_"}
Whitespace == {" "}
Punctuation == {",", ":", "!"}

\* characters matched by \w in re.findall(r'[\w]+', text)
WordChars == Letters \cup Digits \cup Connectors

Range(s) == {s[n] : n \in 1..Len(s)}

\* Python slice s[i:j] with 0 <= i <= j <= len(s)
Slice(s, i, j) == [n \in 1..(j - i) |-> s[i + n]]

\* None: a value that is no text (its one element is not a character)
None == <<"<None>">>

\* ---------------------------------------------------------------- tokenizer
\* a match of [\w]+ can begin at p (0-based): a word character that no
\* earlier match has consumed, i.e. one not preceded by a word character
MatchStartsAt(text, p) ==
    text[p + 1] \in WordChars /\ (p = 0 \/ text[p] \notin WordChars)

\* MatchEnd as the pattern [\w] would match: one character, not the run
MatchEnd_OneChar(text, p) == p + 1

\* end (exclusive) of the greedy match that begins at p
MatchEnd(text, p) ==
    CHOOSE q \in (p + 1)..Len(text) :
        /\ \A r \in (p + 1)..q : text[r] \in WordChars
        /\ (q = Len(text) \/ text[q + 1] \notin WordChars)

\* re.findall(r'[\w]+', text): the non-overlapping matches, left to right
findall(text) ==
    SelectSeq([n \in 1..Len(text) |->
                  IF MatchStartsAt(text, n - 1)
                  THEN Slice(text, n - 1, MatchEnd(text, n - 1))
                  ELSE <<>>],
              LAMBDA m : m # <<>>)

\* str.strip(): drop leading and trailing whitespace
RECURSIVE strip(_)
strip(word) ==
    IF word = <<>> THEN <<>>
    ELSE IF word[1] \in Whitespace THEN strip(Tail(word))
    ELSE IF word[Len(word)] \in Whitespace THEN strip(SubSeq(word, 1, Len(word) - 1))
    ELSE word

\* a tokenizer that takes a value that is not a string for an empty text
_tokenize_text_raises_Never(text) == FALSE

\* re.findall raises TypeError when handed a value that is not a string
_tokenize_text_raises(text) == text = None

\* [word for word in words if word.strip()]
_tokenize_text(text) ==
    SelectSeq(findall(text), LAMBDA word : strip(word) # <<>>)

\* ------------------------------------------- difflib.SequenceMatcher(None, a, b)
\* SequenceMatcher.__chain_b with isjunk=None and the default autojunk=True:
\* when b has at least 200 elements, every element that occurs more than
\* len(b)//100 + 1 times is "popular" and is dropped from the index b2j.
Popular(b) ==
    IF Len(b) >= 200
    THEN {elt \in Range(b) :
             Cardinality({j \in 1..Len(b) : b[j] = elt}) > (Len(b) \div 100) + 1}
    ELSE {}

\* j is listed in b2j[a[i]]
InB2J(a, b, pop, i, j) == a[i + 1] = b[j + 1] /\ b[j + 1] \notin pop

\* the value find_longest_match stores in newj2len[j] while its outer loop is
\* at i: j2len.get(j-1, 0) + 1, where j2len is the row built at i-1
RECURSIVE J2Len(_, _, _, _, _, _, _)
J2Len(a, b, pop, alo, blo, i, j) ==
    IF i < alo \/ j < blo THEN 0
    ELSE IF InB2J(a, b, pop, i, j)
         THEN J2Len(a, b, pop, alo, blo, i - 1, j - 1) + 1
         ELSE 0

\* the two nested loops of find_longest_match (for i in range(alo, ahi),
\* for j in b2j[a[i]] with blo <= j < bhi): best is replaced only when
\* k > bestsize, so the loops end with the first cell, in the order they
\* visit the cells, whose k is the largest one
ScanLoops(a, b, pop, alo, ahi, blo, bhi) ==
    LET cells == {c \in (alo..(ahi - 1)) \X (blo..(bhi - 1)) :
                      InB2J(a, b, pop, c[1], c[2])}
        k(c) == J2Len(a, b, pop, alo, blo, c[1], c[2])
        sizes == {k(c) : c \in cells}
        bestsize == CHOOSE n \in sizes : \A m \in sizes : m <= n
        bests == {c \in cells : k(c) = bestsize}
        first == CHOOSE c \in bests :
                     \A d \in bests : c[1] < d[1] \/ (c[1] = d[1] /\ c[2] <= d[2])
    IN IF cells = {} THEN <<alo, blo, 0>>
       ELSE <<first[1] - bestsize + 1, first[2] - bestsize + 1, bestsize>>

\* first while loop after the scan: extend the block to the left by equal
\* elements (none is junk, isjunk being None); n is the number of rounds
ExtendLeft(a, b, alo, blo, best) ==
    LET most == IF best[1] - alo < best[2] - blo THEN best[1] - alo ELSE best[2] - blo
        same(n) == \A m \in 1..n : a[best[1] - m + 1] = b[best[2] - m + 1]
        n == CHOOSE n \in 0..most : same(n) /\ (n = most \/ ~same(n + 1))
    IN <<best[1] - n, best[2] - n, best[3] + n>>

\* second while loop: extend the block to the right by equal elements
ExtendRight(a, b, ahi, bhi, best) ==
    LET ai == best[1] + best[3]
        bj == best[2] + best[3]
        most == IF ahi - ai < bhi - bj THEN ahi - ai ELSE bhi - bj
        same(n) == \A m \in 1..n : a[ai + m] = b[bj + m]
        n == CHOOSE n \in 0..most : same(n) /\ (n = most \/ ~same(n + 1))
    IN <<best[1], best[2], best[3] + n>>

\* SequenceMatcher.find_longest_match(alo, ahi, blo, bhi) -> <<i, j, size>>.
\* The two closing loops that absorb junk never run: the junk set is empty.
find_longest_match(a, b, pop, alo, ahi, blo, bhi) ==
    ExtendRight(a, b, ahi, bhi,
        ExtendLeft(a, b, alo, blo,
            ScanLoops(a, b, pop, alo, ahi, blo, bhi)))

\* the work queue of get_matching_blocks followed by matching_blocks.sort():
\* the block, the blocks to its left, the blocks to its right
RECURSIVE MatchingBlocksIn(_, _, _, _, _, _, _)
MatchingBlocksIn(a, b, pop, alo, ahi, blo, bhi) ==
    LET x == find_longest_match(a, b, pop, alo, ahi, blo, bhi)
        i == x[1]
        j == x[2]
        k == x[3]
    IN IF k = 0 THEN <<>>
       ELSE (IF alo < i /\ blo < j
             THEN MatchingBlocksIn(a, b, pop, alo, i, blo, j) ELSE <<>>)
            \o <<x>> \o
            (IF i + k < ahi /\ j + k < bhi
             THEN MatchingBlocksIn(a, b, pop, i + k, ahi, j + k, bhi) ELSE <<>>)

\* the loop of get_matching_blocks that collapses adjacent equal blocks;
\* cur is (i1, j1, k1)
RECURSIVE Collapse(_, _, _)
Collapse(blocks, n, cur) ==
    IF n > Len(blocks)
    THEN IF cur[3] > 0 THEN <<cur>> ELSE <<>>
    ELSE LET nxt == blocks[n]
         IN IF cur[1] + cur[3] = nxt[1] /\ cur[2] + cur[3] = nxt[2]
            THEN Collapse(blocks, n + 1, <<cur[1], cur[2], cur[3] + nxt[3]>>)
            ELSE (IF cur[3] > 0 THEN <<cur>> ELSE <<>>)
                 \o Collapse(blocks, n + 1, nxt)

\* SequenceMatcher.get_matching_blocks(): ends with the sentinel (la, lb, 0)
get_matching_blocks(a, b) ==
    Collapse(MatchingBlocksIn(a, b, Popular(b), 0, Len(a), 0, Len(b)), 1, <<0, 0, 0>>)
    \o <<<<Len(a), Len(b), 0>>>>

\* body of the loop of get_opcodes for the matching block blocks[n], with
\* i, j the ends of the previous block
RECURSIVE OpcodesFrom(_, _, _, _)
OpcodesFrom(blocks, n, i, j) ==
    IF n > Len(blocks) THEN <<>>
    ELSE LET ai == blocks[n][1]
             bj == blocks[n][2]
             size == blocks[n][3]
             tag == IF i < ai /\ j < bj THEN "replace"
                    ELSE IF i < ai THEN "delete"
                    ELSE IF j < bj THEN "insert"
                    ELSE ""
         IN (IF tag # "" THEN <<<<tag, i, ai, j, bj>>>> ELSE <<>>)
            \o (IF size > 0 THEN <<<<"equal", ai, ai + size, bj, bj + size>>>> ELSE <<>>)
            \o OpcodesFrom(blocks, n + 1, ai + size, bj + size)

\* SequenceMatcher.get_opcodes() -> sequence of <<tag, i1, i2, j1, j2>>
get_opcodes(a, b) == OpcodesFrom(get_matching_blocks(a, b), 1, 0, 0)

RECURSIVE SumSizes(_, _)
SumSizes(blocks, n) ==
    IF n > Len(blocks) THEN 0 ELSE blocks[n][3] + SumSizes(blocks, n + 1)

\* ratio as matches / length, without the factor 2.0
ratio_NoDouble(a, b) ==
    LET matches == SumSizes(get_matching_blocks(a, b), 1)
        length == Len(a) + Len(b)
    IN IF length > 0 THEN [num |-> matches, den |-> length]
       ELSE [num |-> 1, den |-> 1]

\* SequenceMatcher.ratio(): _calculate_ratio(matches, len(a) + len(b))
ratio(a, b) ==
    LET matches == SumSizes(get_matching_blocks(a, b), 1)
        length == Len(a) + Len(b)
    IN IF length > 0 THEN [num |-> 2 * matches, den |-> length]
       ELSE [num |-> 1, den |-> 1]

\* ------------------------------------------------------ OCRComparisonManager
ONE == [num |-> 1, den |-> 1]     \* the float 1.0
ZERO == [num |-> 0, den |-> 1]    \* the float 0.0

\* _calculate_similarity_score without its guard for empty texts
_calculate_similarity_score_NoGuard(text1, text2) == ratio(text1, text2)

\* _calculate_similarity_score returning a percentage
_calculate_similarity_score_Percent(text1, text2) ==
    IF text1 = <<>> \/ text2 = <<>> THEN ZERO
    ELSE [num |-> 100 * ratio(text1, text2).num, den |-> ratio(text1, text2).den]

\* _calculate_similarity_score comparing the token lists instead of the texts
_calculate_similarity_score_OnTokens(text1, text2) ==
    IF text1 = <<>> \/ text2 = <<>> THEN ZERO
    ELSE ratio(_tokenize_text(text1), _tokenize_text(text2))

_calculate_similarity_score(text1, text2) ==
    IF text1 = <<>> \/ text2 = <<>> THEN ZERO
    ELSE ratio(text1, text2)

\* list(s) of a set s: its elements once each, in an order the set decides
ListsOf(s) == {l \in [1..Cardinality(s) -> s] : Range(l) = s}

\* _analyze_words with unique_easy = set1 instead of set1 - set2
_analyze_words_NoDifference(words1, words2) ==
    LET set1 == Range(words1)
        set2 == Range(words2)
    IN [common_words |-> set1 \cap set2,
        unique_easy |-> set1,
        unique_paddle |-> set2 \ set1]

\* _analyze_words with common_words = set1 | set2 instead of set1 & set2
_analyze_words_Union(words1, words2) ==
    LET set1 == Range(words1)
        set2 == Range(words2)
    IN [common_words |-> set1 \cup set2,
        unique_easy |-> set1 \ set2,
        unique_paddle |-> set2 \ set1]

\* the three sets _analyze_words turns into lists
_analyze_words(words1, words2) ==
    LET set1 == Range(words1)
        set2 == Range(words2)
    IN [common_words |-> set1 \cap set2,
        unique_easy |-> set1 \ set2,
        unique_paddle |-> set2 \ set1]

\* what difflib.HtmlDiff().make_table can do: hand back the table, or raise
RenderOutcomes == {"table", "raise"}

\* _generate_diff_html whose except branch logs and falls off its end
_generate_diff_html_ReturnsNone(text1, text2, outcome) ==
    IF outcome = "raise" THEN "None" ELSE "<table class=\"diff\">"

_generate_diff_html(text1, text2, outcome) ==
    IF outcome = "raise" THEN "" ELSE "<table class=\"diff\">"

\* the except branch of _generate_diff_html: logger.error(...)
_generate_diff_html_logs(outcome) ==
    IF outcome = "raise" THEN <<"HTML diff error">> ELSE <<>>

\* _find_differences storing paddleocr_words[j1:j2] under both word keys
_find_differences_SameSlice(easyocr_words, paddleocr_words) ==
    LET opcodes == get_opcodes(easyocr_words, paddleocr_words)
        unequal == SelectSeq(opcodes, LAMBDA op : op[1] # "equal")
    IN [n \in 1..Len(unequal) |->
           [type |-> unequal[n][1],
            easyocr_range |-> <<unequal[n][2], unequal[n][3]>>,
            paddleocr_range |-> <<unequal[n][4], unequal[n][5]>>,
            easyocr_words |-> Slice(paddleocr_words, unequal[n][4], unequal[n][5]),
            paddleocr_words |-> Slice(paddleocr_words, unequal[n][4], unequal[n][5])]]

\* _find_differences with each range stored under the other engine
_find_differences_SwappedRanges(easyocr_words, paddleocr_words) ==
    LET opcodes == get_opcodes(easyocr_words, paddleocr_words)
        unequal == SelectSeq(opcodes, LAMBDA op : op[1] # "equal")
    IN [n \in 1..Len(unequal) |->
           [type |-> unequal[n][1],
            easyocr_range |-> <<unequal[n][4], unequal[n][5]>>,
            paddleocr_range |-> <<unequal[n][2], unequal[n][3]>>,
            easyocr_words |-> Slice(easyocr_words, unequal[n][2], unequal[n][3]),
            paddleocr_words |-> Slice(paddleocr_words, unequal[n][4], unequal[n][5])]]

\* _find_differences without its test tag != 'equal'
_find_differences_KeepEqual(easyocr_words, paddleocr_words) ==
    LET opcodes == get_opcodes(easyocr_words, paddleocr_words)
    IN [n \in 1..Len(opcodes) |->
           [type |-> opcodes[n][1],
            easyocr_range |-> <<opcodes[n][2], opcodes[n][3]>>,
            paddleocr_range |-> <<opcodes[n][4], opcodes[n][5]>>,
            easyocr_words |-> Slice(easyocr_words, opcodes[n][2], opcodes[n][3]),
            paddleocr_words |-> Slice(paddleocr_words, opcodes[n][4], opcodes[n][5])]]

_find_differences(easyocr_words, paddleocr_words) ==
    LET opcodes == get_opcodes(easyocr_words, paddleocr_words)
        unequal == SelectSeq(opcodes, LAMBDA op : op[1] # "equal")
    IN [n \in 1..Len(unequal) |->
           [type |-> unequal[n][1],
            easyocr_range |-> <<unequal[n][2], unequal[n][3]>>,
            paddleocr_range |-> <<unequal[n][4], unequal[n][5]>>,
            easyocr_words |-> Slice(easyocr_words, unequal[n][2], unequal[n][3]),
            paddleocr_words |-> Slice(paddleocr_words, unequal[n][4], unequal[n][5])]]

\* _calculate_matching_rate with "and" and "or" exchanged in its two tests
_calculate_matching_rate_AndOr(easyocr_words, paddleocr_words) ==
    IF easyocr_words = <<>> \/ paddleocr_words = <<>> THEN ONE
    ELSE IF easyocr_words = <<>> /\ paddleocr_words = <<>> THEN ZERO
    ELSE ratio(easyocr_words, paddleocr_words)

\* _calculate_matching_rate spreading the rate over the calls made so far
_calculate_matching_rate_RunningMean(easyocr_words, paddleocr_words) ==
    LET rate == IF easyocr_words = <<>> /\ paddleocr_words = <<>> THEN ONE
                ELSE IF easyocr_words = <<>> \/ paddleocr_words = <<>> THEN ZERO
                ELSE ratio(easyocr_words, paddleocr_words)
    IN [num |-> rate.num, den |-> rate.den * (Len(comparison_history) + 1)]

_calculate_matching_rate(easyocr_words, paddleocr_words) ==
    IF easyocr_words = <<>> /\ paddleocr_words = <<>> THEN ONE
    ELSE IF easyocr_words = <<>> \/ paddleocr_words = <<>> THEN ZERO
    ELSE ratio(easyocr_words, paddleocr_words)

\* a record that files each engine's text under the other engine
comparison_result_SwappedEngines(easyocr_text, paddleocr_text, now, outcome, common_words, unique_easy, unique_paddle) ==
    LET easyocr_words == _tokenize_text(easyocr_text)
        paddleocr_words == _tokenize_text(paddleocr_text)
    IN [document_info |-> [timestamp |-> now],
        ocr_results |->
            [easyocr |-> [text |-> paddleocr_text,
                          word_count |-> Len(paddleocr_words),
                          char_count |-> Len(paddleocr_text)],
             paddleocr |-> [text |-> easyocr_text,
                            word_count |-> Len(easyocr_words),
                            char_count |-> Len(easyocr_text)]],
        comparison |->
            [matching_rate |-> _calculate_matching_rate(easyocr_words, paddleocr_words),
             similarity_score |-> _calculate_similarity_score(easyocr_text, paddleocr_text),
             differences |-> _find_differences(easyocr_words, paddleocr_words),
             common_words |-> common_words,
             unique_easy |-> unique_easy,
             unique_paddle |-> unique_paddle,
             diff_html |-> _generate_diff_html(easyocr_text, paddleocr_text, outcome)]]

\* the dict compare_ocr_results builds before it appends it: now is
\* datetime.now(), outcome what the renderer did, and the three lists the
\* orders list() gave the three word sets
comparison_result(easyocr_text, paddleocr_text, now, outcome, common_words, unique_easy, unique_paddle) ==
    LET easyocr_words == _tokenize_text(easyocr_text)
        paddleocr_words == _tokenize_text(paddleocr_text)
    IN [document_info |-> [timestamp |-> now],
        ocr_results |->
            [easyocr |-> [text |-> easyocr_text,
                          word_count |-> Len(easyocr_words),
                          char_count |-> Len(easyocr_text)],
             paddleocr |-> [text |-> paddleocr_text,
                            word_count |-> Len(paddleocr_words),
                            char_count |-> Len(paddleocr_text)]],
        comparison |->
            [matching_rate |-> _calculate_matching_rate(easyocr_words, paddleocr_words),
             similarity_score |-> _calculate_similarity_score(easyocr_text, paddleocr_text),
             differences |-> _find_differences(easyocr_words, paddleocr_words),
             common_words |-> common_words,
             unique_easy |-> unique_easy,
             unique_paddle |-> unique_paddle,
             diff_html |-> _generate_diff_html(easyocr_text, paddleocr_text, outcome)]]

\* compare_ocr_results(easyocr_text, paddleocr_text); clock is datetime.now().
\* A None argument makes the first _tokenize_text that meets it raise.
compare_ocr_results(easyocr_text, paddleocr_text) ==
    LET word_analysis == _analyze_words(_tokenize_text(easyocr_text),
                                        _tokenize_text(paddleocr_text))
    IN /\ call' = [op |-> "compare_ocr_results",
                   args |-> <<easyocr_text, paddleocr_text>>]
       /\ IF _tokenize_text_raises(easyocr_text) \/ _tokenize_text_raises(paddleocr_text)
          THEN /\ raised' = "TypeError"
               /\ ret' = <<>>
               /\ UNCHANGED <<comparison_history, clock, error_log, exported>>
          ELSE \E outcome \in RenderOutcomes,
                  common_words \in ListsOf(word_analysis.common_words),
                  unique_easy \in ListsOf(word_analysis.unique_easy),
                  unique_paddle \in ListsOf(word_analysis.unique_paddle) :
                LET result == comparison_result(easyocr_text, paddleocr_text, clock,
                                                outcome, common_words, unique_easy,
                                                unique_paddle)
                IN /\ comparison_history' = Append(comparison_history, result)
                   /\ ret' = <<result.comparison>>
                   /\ raised' = ""
                   /\ clock' = clock + 1
                   /\ error_log' = error_log \o _generate_diff_html_logs(outcome)
                   /\ UNCHANGED exported

\* ------------------------------------------------------- aggregate operations
\* the dict {} (a dict is a record here; {} is the record without fields)
EmptyDict == <<>>

Fraction(n) == [num |-> n, den |-> 1]

RECURSIVE SumFractions(_, _)
SumFractions(values, n) ==
    IF n > Len(values) THEN ZERO
    ELSE LET rest == SumFractions(values, n + 1)
         IN [num |-> values[n].num * rest.den + rest.num * values[n].den,
             den |-> values[n].den * rest.den]

\* sum(...) in place of np.mean(...)
np_mean_Sum(values) == SumFractions(values, 1)

\* np.mean(values) of a non-empty list, as an exact fraction
np_mean(values) ==
    LET total == SumFractions(values, 1)
    IN [num |-> total.num, den |-> total.den * Len(values)]

\* [c["comparison"][key] for c in self.comparison_history]
ComparisonField(history, key) == [n \in 1..Len(history) |-> history[n].comparison[key]]

\* [c["ocr_results"][engine]["word_count"] for c in self.comparison_history]
WordCounts(history, engine) ==
    [n \in 1..Len(history) |-> history[n].ocr_results[engine].word_count]

\* [len(l) for l in lists], each length as a fraction for np.mean
Lens(lists) == [n \in 1..Len(lists) |-> Fraction(Len(lists[n]))]

\* sum(len(l) for l in lists)
RECURSIVE SumLens(_, _)
SumLens(lists, n) == IF n > Len(lists) THEN 0 ELSE Len(lists[n]) + SumLens(lists, n + 1)

\* generate_statistics with a zero-filled aggregate for an empty history
generate_statistics_ZeroPlaceholder ==
    /\ call' = [op |-> "generate_statistics", args |-> <<>>]
    /\ raised' = ""
    /\ ret' = <<[total_pages |-> Len(comparison_history),
                 average_matching_rate |->
                     IF comparison_history = <<>> THEN ZERO
                     ELSE np_mean(ComparisonField(comparison_history, "matching_rate")),
                 total_differences |->
                     SumLens(ComparisonField(comparison_history, "differences"), 1),
                 word_counts |->
                     [easyocr |-> WordCounts(comparison_history, "easyocr"),
                      paddleocr |-> WordCounts(comparison_history, "paddleocr")]]>>
    /\ UNCHANGED <<comparison_history, clock, error_log, exported>>

generate_statistics ==
    /\ call' = [op |-> "generate_statistics", args |-> <<>>]
    /\ raised' = ""
    /\ ret' = IF comparison_history = <<>> THEN <<EmptyDict>>
              ELSE <<[total_pages |-> Len(comparison_history),
                      average_matching_rate |->
                          np_mean(ComparisonField(comparison_history, "matching_rate")),
                      total_differences |->
                          SumLens(ComparisonField(comparison_history, "differences"), 1),
                      word_counts |->
                          [easyocr |-> WordCounts(comparison_history, "easyocr"),
                           paddleocr |-> WordCounts(comparison_history, "paddleocr")]]>>
    /\ UNCHANGED <<comparison_history, clock, error_log, exported>>

\* set().union(*lists)
UnionOf(lists) == UNION {Range(lists[n]) : n \in 1..Len(lists)}

\* get_detailed_statistics averaging matching_rate under both rate keys
get_detailed_statistics_CopiedRate ==
    /\ call' = [op |-> "get_detailed_statistics", args |-> <<>>]
    /\ raised' = ""
    /\ ret' = IF comparison_history = <<>> THEN <<EmptyDict>>
              ELSE <<[total_comparisons |-> Len(comparison_history),
                      average_matching_rate |->
                          np_mean(ComparisonField(comparison_history, "matching_rate")),
                      average_similarity_score |->
                          np_mean(ComparisonField(comparison_history, "matching_rate")),
                      total_differences |->
                          SumLens(ComparisonField(comparison_history, "differences"), 1),
                      common_words_stats |->
                          [average_count |->
                               np_mean(Lens(ComparisonField(comparison_history,
                                                            "common_words"))),
                           total_unique |->
                               Cardinality(UnionOf(ComparisonField(comparison_history,
                                                                   "common_words")))],
                      unique_words_stats |->
                          [easyocr_average |->
                               np_mean(Lens(ComparisonField(comparison_history,
                                                            "unique_easy"))),
                           paddleocr_average |->
                               np_mean(Lens(ComparisonField(comparison_history,
                                                            "unique_paddle")))]]>>
    /\ UNCHANGED <<comparison_history, clock, error_log, exported>>

get_detailed_statistics ==
    /\ call' = [op |-> "get_detailed_statistics", args |-> <<>>]
    /\ raised' = ""
    /\ ret' = IF comparison_history = <<>> THEN <<EmptyDict>>
              ELSE <<[total_comparisons |-> Len(comparison_history),
                      average_matching_rate |->
                          np_mean(ComparisonField(comparison_history, "matching_rate")),
                      average_similarity_score |->
                          np_mean(ComparisonField(comparison_history, "similarity_score")),
                      total_differences |->
                          SumLens(ComparisonField(comparison_history, "differences"), 1),
                      common_words_stats |->
                          [average_count |->
                               np_mean(Lens(ComparisonField(comparison_history,
                                                            "common_words"))),
                           total_unique |->
                               Cardinality(UnionOf(ComparisonField(comparison_history,
                                                                   "common_words")))],
                      unique_words_stats |->
                          [easyocr_average |->
                               np_mean(Lens(ComparisonField(comparison_history,
                                                            "unique_easy"))),
                           paddleocr_average |->
                               np_mean(Lens(ComparisonField(comparison_history,
                                                            "unique_paddle")))]]>>
    /\ UNCHANGED <<comparison_history, clock, error_log, exported>>

\* what mkdir and open(output_file, 'w') can do: succeed, or raise OSError
ExportOutcomes == {"written", "OSError"}

\* export_comparison_results that empties the history once it is written
export_comparison_results_Clear(output_path, outcome) ==
    /\ call' = [op |-> "export_comparison_results", args |-> <<output_path>>]
    /\ IF outcome = "OSError"
       THEN /\ raised' = "OSError"
            /\ ret' = <<>>
            /\ UNCHANGED <<comparison_history, exported>>
       ELSE /\ raised' = ""
            /\ ret' = <<None>>
            /\ exported' = <<comparison_history>>
            /\ comparison_history' = <<>>
    /\ UNCHANGED <<clock, error_log>>

\* export_comparison_results(output_path): json.dump of the whole history
export_comparison_results(output_path, outcome) ==
    /\ call' = [op |-> "export_comparison_results", args |-> <<output_path>>]
    /\ IF outcome = "OSError"
       THEN /\ raised' = "OSError"
            /\ ret' = <<>>
            /\ UNCHANGED exported
       ELSE /\ raised' = ""
            /\ ret' = <<None>>
            /\ exported' = <<comparison_history>>
    /\ UNCHANGED <<comparison_history, clock, error_log>>

\* create_comparison_visualization: a figure is the data of its traces
create_comparison_visualization ==
    LET matching_rates == ComparisonField(comparison_history, "matching_rate")
        pages == [n \in 1..Len(matching_rates) |-> n]
        word_counts ==
            [EasyOCR |-> WordCounts(comparison_history, "easyocr"),
             PaddleOCR |-> WordCounts(comparison_history, "paddleocr")]
        fig1 == <<[x |-> pages, y |-> matching_rates]>>
        fig2 == <<[x |-> pages, y |-> word_counts.EasyOCR],
                  [x |-> pages, y |-> word_counts.PaddleOCR]>>
    IN /\ call' = [op |-> "create_comparison_visualization", args |-> <<>>]
       /\ raised' = ""
       /\ ret' = IF comparison_history = <<>> THEN <<None, None>> ELSE <<fig1, fig2>>
       /\ UNCHANGED <<comparison_history, clock, error_log, exported>>

\* ------------------------------------------------------------------ threads
\* the threads of the hosting process that share the one cached manager
Threads == {1, 2}

\* a thread that is in no call of the manager
Idle == [pc |-> "idle", op |-> "", args |-> <<>>, local |-> <<>>, completed |-> 0]

\* compare_ocr_results in thread t, up to its append: everything it builds
\* is local to the call
compare_begin(t, easyocr_text, paddleocr_text) ==
    LET word_analysis == _analyze_words(_tokenize_text(easyocr_text),
                                        _tokenize_text(paddleocr_text))
    IN /\ threads[t].pc = "idle"
       /\ \E outcome \in RenderOutcomes,
             common_words \in ListsOf(word_analysis.common_words),
             unique_easy \in ListsOf(word_analysis.unique_easy),
             unique_paddle \in ListsOf(word_analysis.unique_paddle) :
           /\ threads' =
                  [threads EXCEPT ![t] =
                      [pc |-> "append",
                       op |-> "compare_ocr_results",
                       args |-> <<easyocr_text, paddleocr_text>>,
                       local |-> <<comparison_result(easyocr_text, paddleocr_text,
                                                     clock, outcome, common_words,
                                                     unique_easy, unique_paddle)>>,
                       completed |-> @.completed]]
           /\ error_log' = error_log \o _generate_diff_html_logs(outcome)
       /\ clock' = clock + 1
       /\ UNCHANGED <<comparison_history, ret, call, raised, exported, app>>

\* an append that leaves out a record older than the last one stored
compare_append_DropStale(t) ==
    /\ threads[t].pc = "append"
    /\ comparison_history' =
           IF /\ comparison_history # <<>>
              /\ comparison_history[Len(comparison_history)].document_info.timestamp
                     > threads[t].local[1].document_info.timestamp
           THEN comparison_history
           ELSE Append(comparison_history, threads[t].local[1])
    /\ threads' = [threads EXCEPT ![t].pc = "return"]
    /\ UNCHANGED <<ret, clock, call, raised, error_log, exported, app>>

\* self.comparison_history.append(comparison_result): one step of the
\* interpreter, whichever thread takes it
compare_append(t) ==
    /\ threads[t].pc = "append"
    /\ comparison_history' = Append(comparison_history, threads[t].local[1])
    /\ threads' = [threads EXCEPT ![t].pc = "return"]
    /\ UNCHANGED <<ret, clock, call, raised, error_log, exported, app>>

\* return comparison_result["comparison"]
compare_return(t) ==
    /\ threads[t].pc = "return"
    /\ threads[t].op = "compare_ocr_results"
    /\ call' = [op |-> threads[t].op, args |-> threads[t].args]
    /\ ret' = <<threads[t].local[1].comparison>>
    /\ raised' = ""
    /\ threads' = [threads EXCEPT ![t] = [Idle EXCEPT !.completed = threads[t].completed + 1]]
    /\ UNCHANGED <<comparison_history, clock, error_log, exported, app>>

\* the values generate_statistics reads from self.comparison_history, one
\* after the other, each with a loop of its own
StatisticsReads ==
    <<"total_pages", "average_matching_rate", "total_differences",
      "word_counts_easyocr", "word_counts_paddleocr">>

\* generate_statistics in thread t: if not self.comparison_history: return {}
statistics_begin(t) ==
    /\ threads[t].pc = "idle"
    /\ threads' =
           [threads EXCEPT ![t] =
               [pc |-> IF comparison_history = <<>> THEN "return" ELSE StatisticsReads[1],
                op |-> "generate_statistics",
                args |-> <<>>,
                local |-> <<>>,
                completed |-> @.completed]]
    /\ UNCHANGED <<comparison_history, ret, clock, call, raised, error_log, exported, app>>

\* one of the reads, over the history as it is when the read is made
statistics_read(t) ==
    /\ threads[t].op = "generate_statistics"
    /\ \E n \in 1..Len(StatisticsReads) :
           /\ threads[t].pc = StatisticsReads[n]
           /\ LET value ==
                      IF n = 1 THEN Len(comparison_history)
                      ELSE IF n = 2
                      THEN np_mean(ComparisonField(comparison_history, "matching_rate"))
                      ELSE IF n = 3
                      THEN SumLens(ComparisonField(comparison_history, "differences"), 1)
                      ELSE IF n = 4 THEN WordCounts(comparison_history, "easyocr")
                      ELSE WordCounts(comparison_history, "paddleocr")
              IN threads' =
                     [threads EXCEPT ![t].local = Append(@, value),
                                     ![t].pc = IF n < Len(StatisticsReads)
                                               THEN StatisticsReads[n + 1] ELSE "return"]
    /\ UNCHANGED <<comparison_history, ret, clock, call, raised, error_log, exported, app>>

\* return stats
statistics_return(t) ==
    /\ threads[t].pc = "return"
    /\ threads[t].op = "generate_statistics"
    /\ call' = [op |-> threads[t].op, args |-> <<>>]
    /\ ret' = IF threads[t].local = <<>> THEN <<EmptyDict>>
              ELSE <<[total_pages |-> threads[t].local[1],
                      average_matching_rate |-> threads[t].local[2],
                      total_differences |-> threads[t].local[3],
                      word_counts |-> [easyocr |-> threads[t].local[4],
                                       paddleocr |-> threads[t].local[5]]]>>
    /\ raised' = ""
    /\ threads' = [threads EXCEPT ![t] = [Idle EXCEPT !.completed = threads[t].completed]]
    /\ UNCHANGED <<comparison_history, clock, error_log, exported, app>>

\* ------------------------------------------------------------- src/main.py
\* One run of the script is one action.  app.events is the trace of the
\* calls the run made, each with the value it returned (<<>> for None);
\* app.session_state is st.session_state['selected_page_both'], <<>> while
\* the key is absent; app.render is what display_page_comparison drew in
\* the run (the page number it found stored, the page it drew and the last
\* page), <<>> when the run did not reach it.
MaxPages == 3        \* pages of an uploaded document
MaxChunks == 2       \* chunks the splitter cuts a text into

Event(fn, result) == [fn |-> fn, result |-> result]

\* EasyOCREngine / PaddleOCREngine.process_document: a dict with "success"
\* and "text", the text "" when the engine failed; it never raises
FlowTexts == {<<>>, <<"a">>}

EngineResults ==
    {[success |-> TRUE, text |-> text] : text \in FlowTexts}
        \cup {[success |-> FALSE, text |-> <<>>]}

\* ChromaVectorStore.add_documents: True, or False when adding or persisting
\* raised
AddOutcomes == {"added", "exception"}

add_documents(outcome) == outcome = "added"

\* display_page_comparison that does not adjust a page beyond the last one
display_page_comparison_NoUpperClamp(session_state, page_images) ==
    LET max_page == IF page_images > 0 THEN page_images ELSE 1
        stored == IF session_state = <<>> THEN 1 ELSE session_state[1]
        current_page == IF stored < 1 THEN 1 ELSE stored
    IN [session_state |-> <<current_page>>,
        render |-> <<[stored |-> stored, current_page |-> current_page,
                      max_page |-> max_page]>>]

\* display_page_comparison for page images 1..page_images ({} when 0): the
\* session state it leaves and the page it goes on to draw
display_page_comparison(session_state, page_images) ==
    LET max_page == IF page_images > 0 THEN page_images ELSE 1
        stored == IF session_state = <<>> THEN 1 ELSE session_state[1]
        current_page == IF stored < 1 THEN 1
                        ELSE IF stored > max_page THEN max_page
                        ELSE stored
    IN [session_state |-> <<current_page>>,
        render |-> <<[stored |-> stored, current_page |-> current_page,
                      max_page |-> max_page]>>]

\* the text chosen for the vector store
ChosenTexts == {"EasyOCR", "PaddleOCR", "combined"}

final_text_empty(chosen_text, easy_result_text, paddle_result_text) ==
    IF chosen_text = "EasyOCR" THEN easy_result_text = <<>>
    ELSE IF chosen_text = "PaddleOCR" THEN paddle_result_text = <<>>
    ELSE FALSE

\* the end of every run that got its text: chunks, vector store, processed
\* directory
Vectorize(n_chunks, add_outcome) ==
    <<Event("doc_processor.process_text", <<n_chunks>>)>>
    \o (IF n_chunks > 0
        THEN <<Event("vector_store.add_documents", <<add_documents(add_outcome)>>),
               Event("st.success", <<n_chunks>>)>>
        ELSE <<Event("st.warning", <<>>)>>)
    \o <<Event("file_manager.move_to_processed", <<>>)>>

\* the both-engines run that compares whatever the second engine answered
show_pdf_processing_page_NoPaddleCheck(easy_result, paddle_result) ==
    LET easy == <<Event("easy_ocr.process_document", <<easy_result.success>>)>>
        paddle == <<Event("paddle_ocr.process_document", <<paddle_result.success>>)>>
    IN IF ~easy_result.success
       THEN /\ app' = [app EXCEPT !.events = easy \o <<Event("st.error", <<>>)>>,
                                  !.render = <<>>]
            /\ UNCHANGED <<comparison_history, ret, clock, call, raised, error_log,
                           exported, threads>>
       ELSE /\ compare_ocr_results(easy_result.text, paddle_result.text)
            /\ \E all_pages \in BOOLEAN, chosen_text \in ChosenTexts :
               \E page_images \in (IF all_pages THEN 0..MaxPages ELSE {0}),
                  n_chunks \in (IF final_text_empty(chosen_text, easy_result.text,
                                                    paddle_result.text)
                                THEN {0} ELSE 1..MaxChunks) :
               \E add_outcome \in (IF n_chunks = 0 THEN {"added"} ELSE AddOutcomes) :
                  LET shown == display_page_comparison(app.session_state, page_images)
                  IN app' = [events |->
                                easy \o paddle
                                \o <<Event("comparison_manager.compare_ocr_results", <<>>)>>
                                \o (IF all_pages
                                    THEN <<Event("display_page_comparison", <<>>)>>
                                    ELSE <<>>)
                                \o Vectorize(n_chunks, add_outcome),
                             session_state |->
                                IF all_pages THEN shown.session_state
                                ELSE app.session_state,
                             render |-> IF all_pages THEN shown.render ELSE <<>>]
            /\ UNCHANGED threads

\* show_pdf_processing_page with both engines chosen and the start button
\* pressed: the whole run of the script.  What the run meets on its way is
\* drawn here: whether the engines found pages (all_pages), the page images
\* (0 for {}), the text the user chose for the vector store, the number of
\* chunks cut from it (none exactly when it is empty), and how the vector
\* store fared.
show_pdf_processing_page(easy_result, paddle_result) ==
    LET easy == <<Event("easy_ocr.process_document", <<easy_result.success>>)>>
        paddle == <<Event("paddle_ocr.process_document", <<paddle_result.success>>)>>
    IN IF ~easy_result.success
       THEN /\ app' = [app EXCEPT !.events = easy \o <<Event("st.error", <<>>)>>,
                                  !.render = <<>>]
            /\ UNCHANGED <<comparison_history, ret, clock, call, raised, error_log,
                           exported, threads>>
       ELSE IF ~paddle_result.success
       THEN /\ app' = [app EXCEPT !.events = easy \o paddle \o <<Event("st.error", <<>>)>>,
                                  !.render = <<>>]
            /\ UNCHANGED <<comparison_history, ret, clock, call, raised, error_log,
                           exported, threads>>
       ELSE /\ compare_ocr_results(easy_result.text, paddle_result.text)
            /\ \E all_pages \in BOOLEAN, chosen_text \in ChosenTexts :
               \E page_images \in (IF all_pages THEN 0..MaxPages ELSE {0}),
                  n_chunks \in (IF final_text_empty(chosen_text, easy_result.text,
                                                    paddle_result.text)
                                THEN {0} ELSE 1..MaxChunks) :
               \E add_outcome \in (IF n_chunks = 0 THEN {"added"} ELSE AddOutcomes) :
                  LET shown == display_page_comparison(app.session_state, page_images)
                  IN app' = [events |->
                                easy \o paddle
                                \o <<Event("comparison_manager.compare_ocr_results", <<>>)>>
                                \o (IF all_pages
                                    THEN <<Event("display_page_comparison", <<>>)>>
                                    ELSE <<>>)
                                \o Vectorize(n_chunks, add_outcome),
                             session_state |->
                                IF all_pages THEN shown.session_state
                                ELSE app.session_state,
                             render |-> IF all_pages THEN shown.render ELSE <<>>]
            /\ UNCHANGED threads

\* a click on a widget display_page_comparison drew: its callback, with the
\* current_page and max_page of the run that drew it, and then the rerun of
\* the script, which returns at the start button (not pressed in this run)
\* and draws no page
OnClick(page) ==
    /\ app.render # <<>>
    /\ app' = [events |-> <<>>, session_state |-> <<page>>, render |-> <<>>]
    /\ UNCHANGED <<comparison_history, ret, clock, call, raised, error_log,
                   exported, threads>>

\* disabled=current_page <= 1
go_to_first ==
    /\ app.render # <<>>
    /\ app.render[1].current_page > 1
    /\ OnClick(1)

go_to_prev ==
    /\ app.render # <<>>
    /\ app.render[1].current_page > 1
    /\ OnClick(IF app.render[1].current_page - 1 > 1
               THEN app.render[1].current_page - 1 ELSE 1)

\* disabled=current_page >= max_page
go_to_next ==
    /\ app.render # <<>>
    /\ app.render[1].current_page < app.render[1].max_page
    /\ OnClick(IF app.render[1].current_page + 1 < app.render[1].max_page
               THEN app.render[1].current_page + 1 ELSE app.render[1].max_page)

go_to_last ==
    /\ app.render # <<>>
    /\ app.render[1].current_page < app.render[1].max_page
    /\ OnClick(app.render[1].max_page)

\* st.slider(..., 1, max_page, current_page, on_change=...)
update_page_from_slider(value) ==
    /\ app.render # <<>>
    /\ value \in 1..app.render[1].max_page
    /\ value # app.render[1].current_page
    /\ OnClick(value)

\* st.number_input(min_value=1, max_value=max_page) and the button beside it
go_to_direct_page(value) ==
    /\ app.render # <<>>
    /\ value \in 1..app.render[1].max_page
    /\ OnClick(value)

\* __init__: self.comparison_history = []
Init ==
    /\ comparison_history = <<>>
    /\ ret = <<>>
    /\ clock = 0
    /\ call = [op |-> "__init__", args |-> <<>>]
    /\ raised = ""
    /\ error_log = <<>>
    /\ exported = <<>>
    /\ threads = [t \in Threads |-> Idle]
    /\ app = [events |-> <<>>, session_state |-> <<>>, render |-> <<>>]

\* ------------------------------------------------------------------- inputs
SeqsUpTo(S, n) == UNION {[1..m -> S] : m \in 0..n}

\* " ".join(words) for one-character words
Join(words) ==
    [p \in 1..(2 * Len(words) - 1) |-> IF p % 2 = 1 THEN words[(p + 1) \div 2] ELSE " "]

WordTexts == {Join(ws) : ws \in SeqsUpTo({"a", "b", "c"}, MaxWords)}
CharTexts == SeqsUpTo({"a", "b", ","}, MaxChars)
TokTexts == SeqsUpTo({"a", "B", "1", "_", " ", ","}, MaxTokText)

\* "Page 1: Hello, World!"
PageText ==
    <<"P", "a", "g", "e", " ", "1", ":", " ",
      "H", "e", "l", "l", "o", ",", " ", "W", "o", "r", "l", "d", "!">>

\* a page of 200 words, "b a a ... a": long enough for difflib's autojunk
LongText == [p \in 1..399 |-> IF p = 1 THEN "b" ELSE IF p % 2 = 1 THEN "a" ELSE " "]

\* "A B C" against "A X C": one word read differently
OneWordPairs == {<<Join(<<"A", "B", "C">>), Join(<<"A", "X", "C">>)>>}

PureTexts == WordTexts \cup CharTexts
PurePairs ==
    (PureTexts \X PureTexts)
    \cup ((TokTexts \cup {PageText}) \X {<<>>})
    \cup OneWordPairs

\* the same page with its first word read as "c"
LongTextC == [LongText EXCEPT ![1] = "c"]

LongPairs ==
    {<<<<"a">>, LongText>>, <<LongText, <<"a">>>>, <<LongText, LongText>>,
     <<LongText, LongTextC>>}

HistTexts == {<<>>, <<"a">>, <<"a", " ", "b">>, <<"b", " ", "a">>, <<",">>}

\* ----------------------------------------------------------- specifications
\* one manager used for up to MaxHistory comparisons
Next ==
    /\ Len(comparison_history) < MaxHistory
    /\ \E t1 \in HistTexts, t2 \in HistTexts : compare_ocr_results(t1, t2)
    /\ UNCHANGED <<threads, app>>

Spec == Init /\ [][Next]_vars

\* a fresh manager and one comparison, over the enumerated inputs
NextPure ==
    /\ Len(comparison_history) < 1
    /\ \E pair \in PurePairs : compare_ocr_results(pair[1], pair[2])
    /\ UNCHANGED <<threads, app>>

SpecPure == Init /\ [][NextPure]_vars

\* the same, with the 200-word page among the inputs
NextLong ==
    /\ Len(comparison_history) < 1
    /\ \E pair \in PurePairs \cup LongPairs : compare_ocr_results(pair[1], pair[2])
    /\ UNCHANGED <<threads, app>>

SpecLong == Init /\ [][NextLong]_vars

\* one manager under every operation; a text may be None
MaxRecords == 3      \* records one manager collects

ManagerPairs ==
    {<<Join(<<"a", "a">>), Join(<<"a", "a", "b">>)>>,
     <<<<"a">>, <<"b">>>>,
     <<<<"a">>, <<"a">>>>,
     <<None, <<"a">>>>, <<<<"a">>, None>>, <<None, None>>}

OutputPaths == {"comparison_results.json"}

NextManager ==
    \/ /\ Len(comparison_history) < MaxRecords
       /\ \E pair \in ManagerPairs : compare_ocr_results(pair[1], pair[2])
       /\ UNCHANGED <<threads, app>>
    \/ generate_statistics /\ UNCHANGED <<threads, app>>
    \/ get_detailed_statistics /\ UNCHANGED <<threads, app>>
    \/ /\ \E output_path \in OutputPaths, outcome \in ExportOutcomes :
              export_comparison_results(output_path, outcome)
       /\ UNCHANGED <<threads, app>>
    \/ create_comparison_visualization /\ UNCHANGED <<threads, app>>

SpecManager == Init /\ [][NextManager]_vars

\* pages whose matching rates are 0.8, 0.9 and 1.0, and the two statistics:
\* "a a" | "a a b", ten times "a" | nine times "a" and "b", "a" | "a"
RatePairs ==
    {<<Join(<<"a", "a">>), Join(<<"a", "a", "b">>)>>,
     <<Join([n \in 1..10 |-> "a"]), Join([n \in 1..10 |-> IF n = 10 THEN "b" ELSE "a"])>>,
     <<<<"a">>, <<"a">>>>}

NextRates ==
    \/ /\ Len(comparison_history) < MaxRecords
       /\ \E pair \in RatePairs : compare_ocr_results(pair[1], pair[2])
       /\ UNCHANGED <<threads, app>>
    \/ generate_statistics /\ UNCHANGED <<threads, app>>
    \/ get_detailed_statistics /\ UNCHANGED <<threads, app>>

SpecRates == Init /\ [][NextRates]_vars

\* the threads of the hosting process on the one manager they share
MaxCalls == 2        \* comparisons begun by all threads together

ThreadPairs == {<<<<"a">>, <<"a">>>>, <<<<"a">>, <<"b">>>>}

NextThreads ==
    \E t \in Threads :
        \/ /\ clock < MaxCalls
           /\ \E pair \in ThreadPairs : compare_begin(t, pair[1], pair[2])
        \/ compare_append(t)
        \/ compare_return(t)
        \/ statistics_begin(t)
        \/ statistics_read(t)
        \/ statistics_return(t)

SpecThreads == Init /\ [][NextThreads]_vars

\* the page of main.py that processes an uploaded document with both engines
NextApp ==
    \/ \E easy_result \in EngineResults, paddle_result \in EngineResults :
           /\ (easy_result.success /\ paddle_result.success) => clock < MaxCalls
           /\ show_pdf_processing_page(easy_result, paddle_result)
    \/ go_to_first
    \/ go_to_prev
    \/ go_to_next
    \/ go_to_last
    \/ \E value \in 1..MaxPages : update_page_from_slider(value)
    \/ \E value \in 1..MaxPages : go_to_direct_page(value)

SpecApp == Init /\ [][NextApp]_vars

\* ------------------------------------------------------------------- claims
IsOne(rate) == rate.num = rate.den     \* rate == 1.0
IsZero(rate) == rate.num = 0           \* rate == 0.0
RateEq(r, s) == r.num * s.den = s.num * r.den

Records == {comparison_history[n] : n \in 1..Len(comparison_history)}
Last == comparison_history[Len(comparison_history)]
EasyWords(rec) == _tokenize_text(rec.ocr_results.easyocr.text)
PaddleWords(rec) == _tokenize_text(rec.ocr_results.paddleocr.text)

\* the alignment of a record: the opcodes of its two token sequences, the
\* unequal ones being the entries of the record's differences, in order
AlignmentOps(rec) ==
    LET A == EasyWords(rec)
        B == PaddleWords(rec)
        ops == get_opcodes(A, B)
        diffs == rec.comparison.differences
        nth(n) == Cardinality({m \in 1..n : ops[m][1] # "equal"})
    IN [n \in 1..Len(ops) |->
           IF ops[n][1] = "equal"
           THEN [kind |-> "equal",
                 left_range |-> <<ops[n][2], ops[n][3]>>,
                 right_range |-> <<ops[n][4], ops[n][5]>>,
                 left_tokens |-> Slice(A, ops[n][2], ops[n][3]),
                 right_tokens |-> Slice(B, ops[n][4], ops[n][5])]
           ELSE IF nth(n) <= Len(diffs)
           THEN [kind |-> diffs[nth(n)].type,
                 left_range |-> diffs[nth(n)].easyocr_range,
                 right_range |-> diffs[nth(n)].paddleocr_range,
                 left_tokens |-> diffs[nth(n)].easyocr_words,
                 right_tokens |-> diffs[nth(n)].paddleocr_words]
           ELSE [kind |-> "missing", left_range |-> <<0, 0>>, right_range |-> <<0, 0>>,
                 left_tokens |-> <<>>, right_tokens |-> <<>>]]

RECURSIVE ConcatLeft(_, _)
ConcatLeft(ops, n) ==
    IF n > Len(ops) THEN <<>> ELSE ops[n].left_tokens \o ConcatLeft(ops, n + 1)

RECURSIVE ConcatRight(_, _)
ConcatRight(ops, n) ==
    IF n > Len(ops) THEN <<>> ELSE ops[n].right_tokens \o ConcatRight(ops, n + 1)

\* the ranges of ops tile [0, la) and [0, lb): each op starts where the
\* previous one ended, the first at 0, the last ends at la and lb
Tiles(ops, la, lb) ==
    /\ \A n \in 1..Len(ops) :
           /\ ops[n].left_range[1] = (IF n = 1 THEN 0 ELSE ops[n - 1].left_range[2])
           /\ ops[n].right_range[1] = (IF n = 1 THEN 0 ELSE ops[n - 1].right_range[2])
           /\ ops[n].left_range[1] <= ops[n].left_range[2]
           /\ ops[n].right_range[1] <= ops[n].right_range[2]
    /\ (IF ops = <<>> THEN 0 ELSE ops[Len(ops)].left_range[2]) = la
    /\ (IF ops = <<>> THEN 0 ELSE ops[Len(ops)].right_range[2]) = lb

\* C1: in every record, the ops of the word alignment (equal ops and the
\* stored differences) tile the index ranges of both token sequences with no
\* gap and no overlap, and the left tokens of the ops, concatenated in
\* order, are sequence A, the right tokens sequence B.
C1_Reconstruction ==
    \A rec \in Records :
        LET ops == AlignmentOps(rec)
        IN /\ Tiles(ops, Len(EasyWords(rec)), Len(PaddleWords(rec)))
           /\ ConcatLeft(ops, 1) = EasyWords(rec)
           /\ ConcatRight(ops, 1) = PaddleWords(rec)

\* a comparison whose alignment has an insert, an equal and a replace op
C1_Witness ==
    /\ comparison_history # <<>>
    /\ {"insert", "equal", "replace"}
           \subseteq {AlignmentOps(Last)[n].kind : n \in 1..Len(AlignmentOps(Last))}

\* C2: the returned matching_rate is 1.0 exactly when both texts tokenize to
\* empty sequences or to the same token sequence.
C2_RateOneIffIdentical ==
    ret # <<>> =>
        (IsOne(ret[1].matching_rate)
            <=> \/ (EasyWords(Last) = <<>> /\ PaddleWords(Last) = <<>>)
                \/ EasyWords(Last) = PaddleWords(Last))

\* two different texts with the same two or more tokens, rated 1.0
C2_Witness ==
    /\ ret # <<>>
    /\ IsOne(ret[1].matching_rate)
    /\ Len(EasyWords(Last)) >= 2
    /\ Last.ocr_results.easyocr.text # Last.ocr_results.paddleocr.text

ExactlyOneEmpty(A, B) == (A = <<>>) # (B = <<>>)

NoEqualOp(rec) ==
    \A n \in 1..Len(AlignmentOps(rec)) : AlignmentOps(rec)[n].kind # "equal"

\* C3 as stated: the returned matching_rate is 0.0 exactly when one token
\* sequence is empty and the other is not.
C3_RateZeroIffOneEmpty ==
    ret # <<>> =>
        (IsZero(ret[1].matching_rate)
            <=> ExactlyOneEmpty(EasyWords(Last), PaddleWords(Last)))

\* C3 amended: the returned matching_rate is 0.0 exactly when the token
\* sequences are not both empty and their alignment has no equal op; one
\* empty sequence beside a non-empty one is such a case.
C3_RateZeroIffNothingAligned ==
    ret # <<>> =>
        /\ IsZero(ret[1].matching_rate)
               <=> /\ ~(EasyWords(Last) = <<>> /\ PaddleWords(Last) = <<>>)
                   /\ NoEqualOp(Last)
        /\ ExactlyOneEmpty(EasyWords(Last), PaddleWords(Last))
               => IsZero(ret[1].matching_rate)

\* two non-empty token sequences rated 0.0
C3_Witness ==
    /\ ret # <<>>
    /\ IsZero(ret[1].matching_rate)
    /\ EasyWords(Last) # <<>>
    /\ PaddleWords(Last) # <<>>

\* C4: the matching rate of (A, B) equals the matching rate of (B, A).
C4_MatchingRateSymmetric ==
    \A rec \in Records :
        RateEq(rec.comparison.matching_rate,
               _calculate_matching_rate(PaddleWords(rec), EasyWords(rec)))

\* C5: the similarity score of (textA, textB) equals that of (textB, textA).
C5_SimilaritySymmetric ==
    \A rec \in Records :
        RateEq(rec.comparison.similarity_score,
               _calculate_similarity_score(rec.ocr_results.paddleocr.text,
                                           rec.ocr_results.easyocr.text))

\* C6: comparing a non-empty text with itself returns matching_rate 1.0,
\* similarity_score 1.0, no differences and no unique words on either side.
C6_Identity ==
    (/\ ret # <<>>
     /\ Last.ocr_results.easyocr.text # <<>>
     /\ Last.ocr_results.easyocr.text = Last.ocr_results.paddleocr.text)
    => /\ IsOne(ret[1].matching_rate)
       /\ IsOne(ret[1].similarity_score)
       /\ ret[1].differences = <<>>
       /\ ret[1].unique_easy = <<>>
       /\ ret[1].unique_paddle = <<>>

\* a text of two or more words compared with itself
C6_Witness ==
    /\ ret # <<>>
    /\ Last.ocr_results.easyocr.text = Last.ocr_results.paddleocr.text
    /\ Last.ocr_results.easyocr.word_count >= 2

\* C7: comparing two empty texts returns matching_rate 1.0 together with
\* similarity_score 0.0.
C7_EmptyBoth ==
    (/\ ret # <<>>
     /\ Last.ocr_results.easyocr.text = <<>>
     /\ Last.ocr_results.paddleocr.text = <<>>)
    => /\ IsOne(ret[1].matching_rate)
       /\ IsZero(ret[1].similarity_score)
       /\ ~IsZero(ret[1].matching_rate)
       /\ ~IsOne(ret[1].similarity_score)

\* two empty texts have been compared
C7_Witness ==
    /\ ret # <<>>
    /\ Last.ocr_results.easyocr.char_count = 0
    /\ Last.ocr_results.paddleocr.char_count = 0

InUnitInterval(rate) == rate.den > 0 /\ 0 <= rate.num /\ rate.num <= rate.den

\* C8: every record of comparison_history has its matching_rate and its
\* similarity_score within [0.0, 1.0].
C8_RatesInUnitInterval ==
    \A rec \in Records :
        /\ InUnitInterval(rec.comparison.matching_rate)
        /\ InUnitInterval(rec.comparison.similarity_score)

\* a history of several records, one of them with both rates strictly
\* between 0.0 and 1.0
C8_Witness ==
    /\ Len(comparison_history) >= 2
    /\ \E rec \in Records :
           /\ ~IsZero(rec.comparison.matching_rate)
           /\ ~IsOne(rec.comparison.matching_rate)
           /\ ~IsZero(rec.comparison.similarity_score)
           /\ ~IsOne(rec.comparison.similarity_score)

\* a letter, a digit or the underscore
IsWordCharacter(c) == c \in Letters \cup Digits \cup {"_"}

\* the maximal runs of word characters of text, as 0-based half-open ranges
MaximalRuns(text) ==
    {r \in (0..Len(text)) \X (0..Len(text)) :
        /\ r[1] < r[2]
        /\ \A p \in (r[1] + 1)..r[2] : IsWordCharacter(text[p])
        /\ (r[1] = 0 \/ ~IsWordCharacter(text[r[1]]))
        /\ (r[2] = Len(text) \/ ~IsWordCharacter(text[r[2] + 1]))}

TokensAreMaximalRuns(text, tokens) ==
    /\ Len(tokens) = Cardinality(MaximalRuns(text))
    /\ \A r \in MaximalRuns(text) :
           tokens[1 + Cardinality({q \in MaximalRuns(text) : q[1] < r[1]})]
               = Slice(text, r[1], r[2])
    /\ \A n \in 1..Len(tokens) : tokens[n] # <<>>
    /\ (\A p \in 1..Len(text) : ~IsWordCharacter(text[p])) => tokens = <<>>

PageTokens ==
    <<<<"P", "a", "g", "e">>, <<"1">>, <<"H", "e", "l", "l", "o">>,
      <<"W", "o", "r", "l", "d">>>>

\* C9: the tokens of a text are its maximal runs of word characters, in text
\* order, verbatim and never empty; a text without word characters has no
\* token; "Page 1: Hello, World!" has the tokens Page, 1, Hello, World.
\* The word counts of a record are the numbers of those runs.
C9_Tokenizer ==
    \A rec \in Records :
        /\ TokensAreMaximalRuns(rec.ocr_results.easyocr.text, EasyWords(rec))
        /\ TokensAreMaximalRuns(rec.ocr_results.paddleocr.text, PaddleWords(rec))
        /\ rec.ocr_results.easyocr.word_count
               = Cardinality(MaximalRuns(rec.ocr_results.easyocr.text))
        /\ rec.ocr_results.easyocr.text = PageText => EasyWords(rec) = PageTokens

\* "Page 1: Hello, World!" has been compared and counted as four words
C9_Witness ==
    /\ comparison_history # <<>>
    /\ Last.ocr_results.easyocr.text = PageText
    /\ Last.ocr_results.easyocr.word_count = 4

RECURSIVE EqualTokensFrom(_, _)
EqualTokensFrom(ops, n) ==
    IF n > Len(ops) THEN 0
    ELSE (IF ops[n].kind = "equal" THEN ops[n].left_range[2] - ops[n].left_range[1] ELSE 0)
         + EqualTokensFrom(ops, n + 1)

\* the number of tokens the equal ops of a record's alignment cover
EqualTokens(rec) == EqualTokensFrom(AlignmentOps(rec), 1)

\* some word of A is also in B, at another index
SharesWordElsewhere(A, B) ==
    \E i \in 1..Len(A), j \in 1..Len(B) : A[i] = B[j] /\ i # j

\* the first part of C10: for sequences not both empty the rate is
\* 2 * (tokens under equal ops) / (len(A) + len(B)), hence 0.0 for two
\* non-empty sequences only when no op is equal
C10_RateFormula ==
    \A rec \in Records :
        LET A == EasyWords(rec)
            B == PaddleWords(rec)
            rate == rec.comparison.matching_rate
        IN /\ (A # <<>> \/ B # <<>>)
                  => RateEq(rate, [num |-> 2 * EqualTokens(rec), den |-> Len(A) + Len(B)])
           /\ (A # <<>> /\ B # <<>> /\ IsZero(rate)) => NoEqualOp(rec)

\* C10: for token sequences not both empty, matching_rate is twice the
\* number of tokens under equal ops divided by len(A) + len(B); it is 0.0
\* for two non-empty sequences only when the alignment has no equal op; and
\* it is positive when the texts share a word at different positions.
C10_RateFromAlignment ==
    /\ C10_RateFormula
    /\ \A rec \in Records :
           SharesWordElsewhere(EasyWords(rec), PaddleWords(rec))
               => rec.comparison.matching_rate.num > 0

\* ---- C11
\* the characters of the equal stretches of the character-level alignment
EqualChars(text1, text2) ==
    LET equal == SelectSeq(get_opcodes(text1, text2), LAMBDA op : op[1] = "equal")
        RECURSIVE Total(_)
        Total(n) == IF n = 0 THEN 0 ELSE (equal[n][3] - equal[n][2]) + Total(n - 1)
    IN Total(Len(equal))

\* C11: similarity_score is computed over the raw texts: 2*M/T for two
\* non-empty texts, M the characters in the matching blocks of the
\* character-level alignment and T the sum of the two text lengths, and 0.0
\* when either text is empty; so two different texts that tokenize alike
\* have matching_rate 1.0 and a similarity_score below 1.0.
C11_SimilarityOverCharacters ==
    \A rec \in Records :
        LET text1 == rec.ocr_results.easyocr.text
            text2 == rec.ocr_results.paddleocr.text
            score == rec.comparison.similarity_score
        IN /\ (text1 # <<>> /\ text2 # <<>>) =>
                  RateEq(score, [num |-> 2 * EqualChars(text1, text2),
                                 den |-> Len(text1) + Len(text2)])
           /\ (text1 = <<>> \/ text2 = <<>>) => IsZero(score)
           /\ (EasyWords(rec) = PaddleWords(rec) /\ text1 # text2) =>
                  /\ IsOne(rec.comparison.matching_rate)
                  /\ ~IsOne(score)

\* "a b" against "a,b": the same tokens, another separator
C11_Witness ==
    \E rec \in Records :
        /\ rec.ocr_results.easyocr.text = <<"a", " ", "b">>
        /\ rec.ocr_results.paddleocr.text = <<"a", ",", "b">>
        /\ EasyWords(rec) = PaddleWords(rec)
        /\ IsOne(rec.comparison.matching_rate)
        /\ RateEq(rec.comparison.similarity_score, [num |-> 4, den |-> 6])

\* ---- C12
NoDuplicates(list) == Cardinality(Range(list)) = Len(list)

\* C12: common_words holds exactly the tokens of both sequences, unique_easy
\* those of A only, unique_paddle those of B only, each token once; the
\* three are pairwise disjoint and together hold every token of A or B.
C12_WordAnalysis ==
    \A rec \in Records :
        LET A == Range(EasyWords(rec))
            B == Range(PaddleWords(rec))
            common_words == rec.comparison.common_words
            unique_easy == rec.comparison.unique_easy
            unique_paddle == rec.comparison.unique_paddle
        IN /\ Range(common_words) = A \cap B
           /\ Range(unique_easy) = A \ B
           /\ Range(unique_paddle) = B \ A
           /\ NoDuplicates(common_words)
           /\ NoDuplicates(unique_easy)
           /\ NoDuplicates(unique_paddle)
           /\ Range(common_words) \cap Range(unique_easy) = {}
           /\ Range(common_words) \cap Range(unique_paddle) = {}
           /\ Range(unique_easy) \cap Range(unique_paddle) = {}
           /\ Range(common_words) \cup Range(unique_easy) \cup Range(unique_paddle)
                  = A \cup B

\* "a b a" against "b c b": repeated tokens, and all three lists non-empty
C12_Witness ==
    \E rec \in Records :
        /\ EasyWords(rec) = <<<<"a">>, <<"b">>, <<"a">>>>
        /\ PaddleWords(rec) = <<<<"b">>, <<"c">>, <<"b">>>>
        /\ rec.comparison.common_words = <<<<"b">>>>
        /\ rec.comparison.unique_easy = <<<<"a">>>>
        /\ rec.comparison.unique_paddle = <<<<"c">>>>

\* ---- C13
\* the ops of the alignment of A and B whose kind is not equal, in order
UnequalOps(A, B) == SelectSeq(get_opcodes(A, B), LAMBDA op : op[1] # "equal")

\* C13: differences holds exactly the ops of the alignment whose kind is not
\* equal, in increasing index order, each with easyocr_words = A[i1:i2] and
\* paddleocr_words = B[j1:j2].
C13_Differences ==
    \A rec \in Records :
        LET A == EasyWords(rec)
            B == PaddleWords(rec)
            differences == rec.comparison.differences
            unequal == UnequalOps(A, B)
        IN /\ Len(differences) = Len(unequal)
           /\ \A n \in 1..Len(differences) :
                  LET diff == differences[n]
                  IN /\ diff.type \in {"replace", "delete", "insert"}
                     /\ diff.type = unequal[n][1]
                     /\ diff.easyocr_range = <<unequal[n][2], unequal[n][3]>>
                     /\ diff.paddleocr_range = <<unequal[n][4], unequal[n][5]>>
                     /\ diff.easyocr_words =
                            Slice(A, diff.easyocr_range[1], diff.easyocr_range[2])
                     /\ diff.paddleocr_words =
                            Slice(B, diff.paddleocr_range[1], diff.paddleocr_range[2])
           /\ \A n \in 1..(Len(differences) - 1) :
                  /\ differences[n].easyocr_range[2] < differences[n + 1].easyocr_range[1]
                  /\ differences[n].paddleocr_range[2]
                         < differences[n + 1].paddleocr_range[1]

\* "a b c" against "b": an equal op between two entries of differences
C13_Witness ==
    \E rec \in Records :
        /\ EasyWords(rec) = <<<<"a">>, <<"b">>, <<"c">>>>
        /\ PaddleWords(rec) = <<<<"b">>>>
        /\ rec.comparison.differences =
               <<[type |-> "delete", easyocr_range |-> <<0, 1>>,
                  paddleocr_range |-> <<0, 0>>,
                  easyocr_words |-> <<<<"a">>>>, paddleocr_words |-> <<>>],
                 [type |-> "delete", easyocr_range |-> <<2, 3>>,
                  paddleocr_range |-> <<1, 1>>,
                  easyocr_words |-> <<<<"c">>>>, paddleocr_words |-> <<>>]>>

\* ---- C14
\* the indices (0-based) at which two token sequences of one length differ
DifferAt(A, B) ==
    IF Len(A) # Len(B) THEN {} ELSE {k \in 0..(Len(A) - 1) : A[k + 1] # B[k + 1]}

\* A and B have the same length and differ at exactly the index k, and the
\* two differing tokens occur nowhere else in A or B
SingleSubstitution(A, B, k) ==
    /\ Len(A) = Len(B)
    /\ DifferAt(A, B) = {k}
    /\ \A m \in 0..(Len(A) - 1) :
           m # k => /\ A[m + 1] \notin {A[k + 1], B[k + 1]}
                    /\ B[m + 1] \notin {A[k + 1], B[k + 1]}

\* equal over [0,k), replace at k, equal over [k+1,n), empty stretches left out
SubstitutionOps(n, k) ==
    (IF k > 0 THEN <<<<"equal", 0, k, 0, k>>>> ELSE <<>>)
    \o <<<<"replace", k, k + 1, k, k + 1>>>>
    \o (IF k + 1 < n THEN <<<<"equal", k + 1, n, k + 1, n>>>> ELSE <<>>)

\* C14: when A and B have the same length and differ at exactly one index k,
\* with the two differing tokens occurring nowhere else, the alignment is an
\* equal op over [0,k), one replace op at k and an equal op over [k+1,n),
\* and differences holds only that replace op.
C14_SingleSubstitution ==
    \A rec \in Records :
        LET A == EasyWords(rec)
            B == PaddleWords(rec)
        IN \A k \in DifferAt(A, B) :
               SingleSubstitution(A, B, k) =>
                   /\ get_opcodes(A, B) = SubstitutionOps(Len(A), k)
                   /\ rec.comparison.differences =
                          <<[type |-> "replace",
                             easyocr_range |-> <<k, k + 1>>,
                             paddleocr_range |-> <<k, k + 1>>,
                             easyocr_words |-> <<A[k + 1]>>,
                             paddleocr_words |-> <<B[k + 1]>>]>>

\* ---- C15
\* every field of the record but diff_html carries what the manager computes
\* for the record's two texts
Populated(rec) ==
    LET text1 == rec.ocr_results.easyocr.text
        text2 == rec.ocr_results.paddleocr.text
        A == _tokenize_text(text1)
        B == _tokenize_text(text2)
    IN /\ rec.ocr_results.easyocr.word_count = Len(A)
       /\ rec.ocr_results.easyocr.char_count = Len(text1)
       /\ rec.ocr_results.paddleocr.word_count = Len(B)
       /\ rec.ocr_results.paddleocr.char_count = Len(text2)
       /\ rec.comparison.matching_rate = _calculate_matching_rate(A, B)
       /\ rec.comparison.similarity_score = _calculate_similarity_score(text1, text2)
       /\ rec.comparison.differences = _find_differences(A, B)
       /\ Range(rec.comparison.common_words) = Range(A) \cap Range(B)
       /\ Range(rec.comparison.unique_easy) = Range(A) \ Range(B)
       /\ Range(rec.comparison.unique_paddle) = Range(B) \ Range(A)

\* C15: a call whose diff rendering fails (the failure is logged) does not
\* raise: it returns, and appends, a record whose diff_html is the empty
\* string and whose other fields are all populated.
C15_RenderFailureRecovered ==
    [][error_log' # error_log =>
          /\ raised' = ""
          /\ comparison_history' # <<>>
          /\ LET rec == comparison_history'[Len(comparison_history')]
             IN /\ comparison_history' = Append(comparison_history, rec)
                /\ call'.args = <<rec.ocr_results.easyocr.text,
                                   rec.ocr_results.paddleocr.text>>
                /\ ret' = <<rec.comparison>>
                /\ rec.comparison.diff_html = ""
                /\ Populated(rec)]_vars

\* a failed rendering after a successful one, on "a b" against "b a"
C15_Witness ==
    /\ Len(comparison_history) = 2
    /\ Len(error_log) = 1
    /\ raised = ""
    /\ comparison_history[1].comparison.diff_html # ""
    /\ Last.comparison.diff_html = ""
    /\ Last.ocr_results.easyocr.text = <<"a", " ", "b">>
    /\ Last.ocr_results.paddleocr.text = <<"b", " ", "a">>
    /\ Len(Last.comparison.differences) > 0
    /\ ret = <<Last.comparison>>

\* ---- C16
\* C16: a comparison handed None for either text fails fast: it raises to
\* its caller, returns no comparison, and leaves comparison_history as it was.
C16_NullInputFailsFast ==
    [][(/\ call'.op = "compare_ocr_results"
        /\ (call'.args[1] = None \/ call'.args[2] = None)) =>
           /\ raised' # ""
           /\ ret' = <<>>
           /\ comparison_history' = comparison_history]_vars

\* after two comparisons, a third one with None as its second text
C16_Witness ==
    /\ call.op = "compare_ocr_results"
    /\ call.args = <<<<"a">>, None>>
    /\ raised = "TypeError"
    /\ ret = <<>>
    /\ Len(comparison_history) = 2

\* ---- C17
\* C17: a comparison of two strings never raises and appends exactly one
\* record, at the end; no other operation (statistics, export,
\* visualization, a failed comparison) touches the history: it only grows,
\* its records stay as appended, and they stand in call order.
C17_HistoryAppendOnly ==
    [][/\ (/\ call'.op = "compare_ocr_results"
           /\ call'.args[1] # None
           /\ call'.args[2] # None) =>
              /\ raised' = ""
              /\ Len(comparison_history') = Len(comparison_history) + 1
              /\ LET rec == comparison_history'[Len(comparison_history')]
                 IN /\ comparison_history' = Append(comparison_history, rec)
                    /\ rec.ocr_results.easyocr.text = call'.args[1]
                    /\ rec.ocr_results.paddleocr.text = call'.args[2]
                    /\ ret' = <<rec.comparison>>
                    /\ \A n \in 1..Len(comparison_history) :
                           comparison_history[n].document_info.timestamp
                               < rec.document_info.timestamp
       /\ call'.op # "compare_ocr_results" =>
              comparison_history' = comparison_history
       /\ Len(comparison_history') >= Len(comparison_history)
       /\ SubSeq(comparison_history', 1, Len(comparison_history)) = comparison_history
      ]_vars

\* statistics on an empty history, an export of two records, a third
\* comparison and a visualization: the exported records are still the first two
C17_Witness ==
    /\ call.op = "create_comparison_visualization"
    /\ Len(comparison_history) = 3
    /\ exported # <<>>
    /\ Len(exported[1]) = 2
    /\ exported[1] = SubSeq(comparison_history, 1, 2)
    /\ comparison_history[1].ocr_results.easyocr.text = <<"a", " ", "a">>
    /\ IsZero(comparison_history[2].comparison.matching_rate)

\* ---- C18
StatisticsOps == {"generate_statistics", "get_detailed_statistics"}

\* C18: either statistics operation, called on an empty history, raises
\* nothing and returns the empty aggregate: a record without any field, so
\* without average or total fields and without zero placeholders.
C18_EmptyHistoryStatistics ==
    (call.op \in StatisticsOps /\ comparison_history = <<>>) =>
        /\ raised = ""
        /\ Len(ret) = 1
        /\ DOMAIN ret[1] = {}
        /\ ret[1] = EmptyDict

\* generate_statistics on a manager that has compared nothing yet
C18_Witness ==
    /\ call.op = "generate_statistics"
    /\ comparison_history = <<>>
    /\ raised = ""
    /\ ret = <<EmptyDict>>

\* ---- C19
\* the mean of a field of the stored records, given as a list of fractions
RECURSIVE SumOf(_, _)
SumOf(values, n) ==
    IF n > Len(values) THEN ZERO
    ELSE LET rest == SumOf(values, n + 1)
         IN [num |-> values[n].num * rest.den + rest.num * values[n].den,
             den |-> values[n].den * rest.den]

MeanOf(values) == [num |-> SumOf(values, 1).num, den |-> SumOf(values, 1).den * Len(values)]

WordCountsOf(history, engine) ==
    [n \in 1..Len(history) |-> Fraction(history[n].ocr_results[engine].word_count)]

FieldOf(history, key) == [n \in 1..Len(history) |-> history[n].comparison[key]]

LensOf(history, key) ==
    [n \in 1..Len(history) |-> Fraction(Len(history[n].comparison[key]))]

\* C19 as stated: on a non-empty history the aggregate of a statistics
\* operation includes the mean matching rate, the mean similarity score,
\* the total difference count and the per-engine mean word counts.
C19_AggregateHasAllFour ==
    (call.op \in StatisticsOps /\ comparison_history # <<>>) =>
        /\ "average_matching_rate" \in DOMAIN ret[1]
        /\ "average_similarity_score" \in DOMAIN ret[1]
        /\ "total_differences" \in DOMAIN ret[1]
        /\ "word_counts" \in DOMAIN ret[1]
        /\ \A engine \in {"easyocr", "paddleocr"} :
               ret[1].word_counts[engine] =
                   MeanOf(WordCountsOf(comparison_history, engine))

TotalDifferences(history) ==
    LET RECURSIVE Count(_)
        Count(n) == IF n = 0 THEN 0
                    ELSE Len(history[n].comparison.differences) + Count(n - 1)
    IN Count(Len(history))

\* C19, amended: on a non-empty history generate_statistics returns the
\* record count, the mean matching rate, the total difference count and,
\* per engine, the list of the records' word counts; get_detailed_statistics
\* returns the record count, the mean matching rate, the mean similarity
\* score, the total difference count, the mean and the distinct total of the
\* common words, and per engine the mean number of unique words.  Neither
\* returns a mean word count.
C19_AggregateFields ==
    LET history == comparison_history
        stats == ret[1]
    IN /\ (call.op = "generate_statistics" /\ history # <<>>) =>
              /\ DOMAIN stats = {"total_pages", "average_matching_rate",
                                  "total_differences", "word_counts"}
              /\ stats.total_pages = Len(history)
              /\ RateEq(stats.average_matching_rate,
                        MeanOf(FieldOf(history, "matching_rate")))
              /\ stats.total_differences = TotalDifferences(history)
              /\ DOMAIN stats.word_counts = {"easyocr", "paddleocr"}
              /\ \A engine \in {"easyocr", "paddleocr"} :
                     /\ Len(stats.word_counts[engine]) = Len(history)
                     /\ \A n \in 1..Len(history) :
                            stats.word_counts[engine][n]
                                = history[n].ocr_results[engine].word_count
       /\ (call.op = "get_detailed_statistics" /\ history # <<>>) =>
              /\ DOMAIN stats = {"total_comparisons", "average_matching_rate",
                                  "average_similarity_score", "total_differences",
                                  "common_words_stats", "unique_words_stats"}
              /\ stats.total_comparisons = Len(history)
              /\ RateEq(stats.average_matching_rate,
                        MeanOf(FieldOf(history, "matching_rate")))
              /\ RateEq(stats.average_similarity_score,
                        MeanOf(FieldOf(history, "similarity_score")))
              /\ stats.total_differences = TotalDifferences(history)
              /\ RateEq(stats.common_words_stats.average_count,
                        MeanOf(LensOf(history, "common_words")))
              /\ stats.common_words_stats.total_unique =
                     Cardinality(UNION {Range(rec.comparison.common_words) :
                                           rec \in Records})
              /\ RateEq(stats.unique_words_stats.easyocr_average,
                        MeanOf(LensOf(history, "unique_easy")))
              /\ RateEq(stats.unique_words_stats.paddleocr_average,
                        MeanOf(LensOf(history, "unique_paddle")))

\* get_detailed_statistics over "a a" | "a a b" and "a" | "b": mean matching
\* rate 0.4, mean similarity score 0.375, one difference each
C19_Witness ==
    /\ call.op = "get_detailed_statistics"
    /\ Len(comparison_history) = 2
    /\ comparison_history[1].ocr_results.paddleocr.text = <<"a", " ", "a", " ", "b">>
    /\ comparison_history[2].ocr_results.paddleocr.text = <<"b">>
    /\ RateEq(ret[1].average_matching_rate, [num |-> 2, den |-> 5])
    /\ RateEq(ret[1].average_similarity_score, [num |-> 3, den |-> 8])
    /\ ret[1].total_differences = 2
    /\ RateEq(ret[1].unique_words_stats.paddleocr_average, ONE)

\* ---- C20
MatchingRates == [n \in 1..Len(comparison_history) |->
                     comparison_history[n].comparison.matching_rate]

RECURSIVE ProductOfDens(_, _)
ProductOfDens(rates, n) ==
    IF n > Len(rates) THEN 1 ELSE rates[n].den * ProductOfDens(rates, n + 1)

\* the sum of the rates, as a numerator over ProductOfDens(rates, 1)
RECURSIVE SumOverProduct(_, _)
SumOverProduct(rates, n) ==
    IF n > Len(rates) THEN 0
    ELSE rates[n].num * (ProductOfDens(rates, 1) \div rates[n].den)
         + SumOverProduct(rates, n + 1)

\* m times the number of rates is the sum of the rates
IsArithmeticMean(m, rates) ==
    m.num * Len(rates) * ProductOfDens(rates, 1) = m.den * SumOverProduct(rates, 1)

\* the stored matching rates are 0.8, 0.9 and 1.0, in this order
RatesOfExample ==
    /\ Len(MatchingRates) = 3
    /\ RateEq(MatchingRates[1], [num |-> 8, den |-> 10])
    /\ RateEq(MatchingRates[2], [num |-> 9, den |-> 10])
    /\ RateEq(MatchingRates[3], ONE)

\* C20: on a non-empty history the average_matching_rate of either
\* statistics operation is the arithmetic mean of the matching_rate of
\* every stored record; records with 0.8, 0.9 and 1.0 give 0.9.
C20_AverageMatchingRate ==
    (call.op \in StatisticsOps /\ comparison_history # <<>>) =>
        /\ IsArithmeticMean(ret[1].average_matching_rate, MatchingRates)
        /\ RatesOfExample =>
               RateEq(ret[1].average_matching_rate, [num |-> 9, den |-> 10])

\* generate_statistics after the three pages with rates 0.8, 0.9 and 1.0
C20_Witness ==
    /\ call.op = "generate_statistics"
    /\ RatesOfExample
    /\ comparison_history[2].ocr_results.easyocr.word_count = 10
    /\ RateEq(ret[1].average_matching_rate, [num |-> 9, den |-> 10])

\* ---- C21
SameTexts(rec1, rec2) ==
    /\ rec1.ocr_results.easyocr.text = rec2.ocr_results.easyocr.text
    /\ rec1.ocr_results.paddleocr.text = rec2.ocr_results.paddleocr.text

\* C21: the comparison is a function of the two texts alone: two calls of one
\* manager on the same pair of texts return the same matching_rate,
\* similarity_score and differences and the same three word sets, whatever
\* the history held when each was made.
C21_Deterministic ==
    \A rec1 \in Records, rec2 \in Records :
        SameTexts(rec1, rec2) =>
            /\ rec1.comparison.matching_rate = rec2.comparison.matching_rate
            /\ rec1.comparison.similarity_score = rec2.comparison.similarity_score
            /\ rec1.comparison.differences = rec2.comparison.differences
            /\ Range(rec1.comparison.common_words) = Range(rec2.comparison.common_words)
            /\ Range(rec1.comparison.unique_easy) = Range(rec2.comparison.unique_easy)
            /\ Range(rec1.comparison.unique_paddle)
                   = Range(rec2.comparison.unique_paddle)

\* "a b" against "b a" compared twice on one manager, the second call
\* listing the common words in another order and failing to render
C21_Witness ==
    /\ Len(comparison_history) = 2
    /\ SameTexts(comparison_history[1], comparison_history[2])
    /\ comparison_history[1].ocr_results.easyocr.text = <<"a", " ", "b">>
    /\ comparison_history[1].ocr_results.paddleocr.text = <<"b", " ", "a">>
    /\ comparison_history[1].comparison.common_words
           # comparison_history[2].comparison.common_words
    /\ comparison_history[1].comparison.diff_html
           # comparison_history[2].comparison.diff_html
    /\ ret = <<comparison_history[2].comparison>>

\* ---- C22
\* the length of a longest common subsequence of A[i..] and B[j..] (1-based)
RECURSIVE LCSFrom(_, _, _, _)
LCSFrom(A, B, i, j) ==
    IF i > Len(A) \/ j > Len(B) THEN 0
    ELSE IF A[i] = B[j] THEN 1 + LCSFrom(A, B, i + 1, j + 1)
    ELSE LET skipA == LCSFrom(A, B, i + 1, j)
             skipB == LCSFrom(A, B, i, j + 1)
         IN IF skipA >= skipB THEN skipA ELSE skipB

LCSLength(A, B) == LCSFrom(A, B, 1, 1)

\* the equal ops pair equal tokens, left to right in both sequences
EqualOpsAreCommonSubsequence(rec) ==
    LET ops == AlignmentOps(rec)
        equal == SelectSeq(ops, LAMBDA op : op.kind = "equal")
    IN /\ \A n \in 1..Len(equal) : equal[n].left_tokens = equal[n].right_tokens
       /\ \A n \in 1..(Len(equal) - 1) :
              /\ equal[n].left_range[2] <= equal[n + 1].left_range[1]
              /\ equal[n].right_range[2] <= equal[n + 1].right_range[1]

\* C22: the tokens under the equal ops form a common subsequence of A and B
\* that is as long as a longest common subsequence of A and B.
C22_AlignmentIsLongest ==
    \A rec \in Records :
        /\ EqualOpsAreCommonSubsequence(rec)
        /\ EqualTokens(rec) = LCSLength(EasyWords(rec), PaddleWords(rec))

\* ---- C23
\* the length of the longest run A[i..i+k) = B[j..j+k) inside the windows
\* ending at ahi and bhi (indices 0-based)
RunAt(A, B, i, j, ahi, bhi) ==
    LET most == IF ahi - i < bhi - j THEN ahi - i ELSE bhi - j
        same(n) == \A m \in 1..n : A[i + m] = B[j + m]
    IN CHOOSE n \in 0..most : same(n) /\ (n = most \/ ~same(n + 1))

\* among the longest matching blocks of the two windows, the one starting
\* earliest in A and, among those, earliest in B; size 0 when nothing matches
EarliestLongestBlock(A, B, alo, ahi, blo, bhi) ==
    LET starts == {c \in (alo..(ahi - 1)) \X (blo..(bhi - 1)) :
                       /\ A[c[1] + 1] = B[c[2] + 1]
                       /\ (c[1] = alo \/ c[2] = blo \/ A[c[1]] # B[c[2]])}
        size(c) == RunAt(A, B, c[1], c[2], ahi, bhi)
        sizes == {size(c) : c \in starts}
        longest == CHOOSE n \in sizes : \A m \in sizes : m <= n
        blocks == {c \in starts : size(c) = longest}
        first == CHOOSE c \in blocks :
                     \A d \in blocks : c[1] < d[1] \/ (c[1] = d[1] /\ c[2] <= d[2])
    IN IF starts = {} THEN <<alo, blo, 0>> ELSE <<first[1], first[2], longest>>

\* that block, then the same to its left and to its right
RECURSIVE EarliestLongestBlocks(_, _, _, _, _, _)
EarliestLongestBlocks(A, B, alo, ahi, blo, bhi) ==
    LET x == EarliestLongestBlock(A, B, alo, ahi, blo, bhi)
    IN IF x[3] = 0 THEN <<>>
       ELSE (IF alo < x[1] /\ blo < x[2]
             THEN EarliestLongestBlocks(A, B, alo, x[1], blo, x[2]) ELSE <<>>)
            \o <<x>> \o
            (IF x[1] + x[3] < ahi /\ x[2] + x[3] < bhi
             THEN EarliestLongestBlocks(A, B, x[1] + x[3], ahi, x[2] + x[3], bhi)
             ELSE <<>>)

\* the index ranges of the equal ops these blocks give, adjacent blocks merged
EarliestLongestEqualRanges(A, B) ==
    LET blocks == Collapse(EarliestLongestBlocks(A, B, 0, Len(A), 0, Len(B)),
                           1, <<0, 0, 0>>)
    IN [n \in 1..Len(blocks) |->
           <<blocks[n][1], blocks[n][1] + blocks[n][3],
             blocks[n][2], blocks[n][2] + blocks[n][3]>>]

\* the index ranges of the equal ops of a record's alignment
EqualRanges(rec) ==
    LET equal == SelectSeq(AlignmentOps(rec), LAMBDA op : op.kind = "equal")
    IN [n \in 1..Len(equal) |->
           <<equal[n].left_range[1], equal[n].left_range[2],
             equal[n].right_range[1], equal[n].right_range[2]>>]

\* C23: the aligner takes, among the longest matching blocks, the one that
\* starts earliest in A and, among those, earliest in B, and then does the
\* same on the parts to the left and to the right of that block.
C23_EarliestLongestBlock ==
    \A rec \in Records :
        EqualRanges(rec) = EarliestLongestEqualRanges(EasyWords(rec), PaddleWords(rec))
\* ---- C24
\* the calls of compare_ocr_results that have appended: those that returned,
\* and those that stand between their append and their return
RECURSIVE CompletedIn(_)
CompletedIn(S) ==
    IF S = {} THEN 0
    ELSE LET t == CHOOSE x \in S : TRUE
         IN threads[t].completed + CompletedIn(S \ {t})

Appended ==
    {t \in Threads : threads[t].pc = "return" /\ threads[t].op = "compare_ocr_results"}

Occurrences(record) ==
    Cardinality({n \in 1..Len(comparison_history) : comparison_history[n] = record})

\* C24: when threads call compare_ocr_results on the shared manager at the
\* same time, every call that has appended accounts for exactly one record of
\* the history: the length of the history is the number of such calls, no
\* record occurs twice, the record of a call that has appended is in the
\* history once, and when no call is in progress the length of the history is
\* the number of completed calls.
C24_AppendsSerialized ==
    /\ Len(comparison_history) = CompletedIn(Threads) + Cardinality(Appended)
    /\ \A n \in 1..Len(comparison_history) : Occurrences(comparison_history[n]) = 1
    /\ \A t \in Appended : Occurrences(threads[t].local[1]) = 1
    /\ (\A t \in Threads : threads[t].pc = "idle")
          => Len(comparison_history) = CompletedIn(Threads)

\* two calls overlapped, the one that began first appended last, and both
\* have returned
C24_Witness ==
    /\ \A t \in Threads : threads[t].pc = "idle" /\ threads[t].completed = 1
    /\ Len(comparison_history) = 2
    /\ comparison_history[1].document_info.timestamp
          > comparison_history[2].document_info.timestamp

\* ---- C25
\* the aggregate generate_statistics returns for the history given
SnapshotOf(stats, history) ==
    /\ stats.total_pages = Len(history)
    /\ RateEq(stats.average_matching_rate, MeanOf(FieldOf(history, "matching_rate")))
    /\ stats.total_differences = TotalDifferences(history)
    /\ \A engine \in {"easyocr", "paddleocr"} :
           /\ Len(stats.word_counts[engine]) = Len(history)
           /\ \A n \in 1..Len(history) :
                  stats.word_counts[engine][n] = history[n].ocr_results[engine].word_count

\* C25: the aggregate a statistics read returns while other threads append
\* is a snapshot: its count, its mean matching rate, its total of differences
\* and its word counts are all those of one and the same prefix of the
\* history.
C25_ConsistentSnapshot ==
    (call.op = "generate_statistics" /\ ret # <<EmptyDict>>) =>
        \E n \in 1..Len(comparison_history) :
            SnapshotOf(ret[1], SubSeq(comparison_history, 1, n))

\* ---- C26
EngineRuns == {"easy_ocr.process_document", "paddle_ocr.process_document"}

Reported(events, fn, success) ==
    {n \in 1..Len(events) : events[n].fn = fn /\ events[n].result = <<success>>}

EngineFailed(events) == \E fn \in EngineRuns : Reported(events, fn, FALSE) # {}

Compared(events) ==
    {n \in 1..Len(events) : events[n].fn = "comparison_manager.compare_ocr_results"}

\* C26: in a both-engines run the comparison is called only after the
\* EasyOCR run and then the PaddleOCR run have returned with success, and
\* the manager gets a record only in a run that called it; a run in which an
\* engine reported failure ends with the error message, calls no comparison
\* and leaves comparison_history as it was.
C26_CompareAfterBothSucceed ==
    [][LET events == app'.events
       IN /\ \A n \in Compared(events) :
                 \E e \in Reported(events, "easy_ocr.process_document", TRUE),
                    p \in Reported(events, "paddle_ocr.process_document", TRUE) :
                     e < p /\ p < n
          /\ comparison_history' # comparison_history => Compared(events) # {}
          /\ EngineFailed(events) =>
                 /\ Compared(events) = {}
                 /\ events[Len(events)].fn = "st.error"
                 /\ comparison_history' = comparison_history
                 /\ clock' = clock]_vars

\* after a run that compared, a run in which EasyOCR succeeded and PaddleOCR
\* failed: it stopped at the error message and the history still holds the
\* one record
C26_Witness ==
    /\ Len(app.events) = 3
    /\ app.events[1] = Event("easy_ocr.process_document", <<TRUE>>)
    /\ app.events[2] = Event("paddle_ocr.process_document", <<FALSE>>)
    /\ app.events[3].fn = "st.error"
    /\ Len(comparison_history) = 1

\* ---- C29
\* C29: whatever navigation came before and however the number of pages of
\* the document changed since the last run, the page display_page_comparison
\* draws is one of the pages 1..max_page.
C29_RenderedPageInRange ==
    app.render # <<>> =>
        /\ app.render[1].max_page >= 1
        /\ app.render[1].current_page \in 1..app.render[1].max_page

\* the last page of a longer document was selected, and the run drew a
\* document of one page
C29_Witness ==
    /\ app.render # <<>>
    /\ app.render[1].stored = MaxPages
    /\ app.render[1].max_page = 1
    /\ app.render[1].current_page = 1
    /\ app.session_state = <<1>>

\* ---- C30
Called(events, fn) == {n \in 1..Len(events) : events[n].fn = fn}

\* C30: a run reports that N chunks were added to the vector store, and
\* moves the uploaded file to the processed directory, only after
\* add_documents returned success for them.
C30_SuccessOnlyIfAdded ==
    \A n \in Called(app.events, "st.success")
            \cup Called(app.events, "file_manager.move_to_processed") :
        \E m \in Called(app.events, "vector_store.add_documents") :
            m < n /\ app.events[m].result = <<TRUE>>

\* ---- C27
Engines == <<"easyocr", "paddleocr">>

\* C27: when compare_ocr_results(t1, t2) has returned, the last record of the
\* history holds for each engine the text it was given, unchanged, the number
\* of tokens of that text as word_count and the length of the text as
\* char_count, and the comparison part of the record is the value returned.
C27_RecordStoresInputs ==
    (call.op = "compare_ocr_results" /\ raised = "") =>
        /\ comparison_history # <<>>
        /\ \A k \in 1..2 :
               LET stored == Last.ocr_results[Engines[k]]
               IN /\ stored.text = call.args[k]
                  /\ stored.word_count = Cardinality(MaximalRuns(call.args[k]))
                  /\ stored.char_count = Len(call.args[k])
        /\ ret = <<Last.comparison>>

\* the second comparison of a manager, of "a b" with ","
C27_Witness ==
    /\ call.op = "compare_ocr_results"
    /\ raised = ""
    /\ Len(comparison_history) = 2
    /\ call.args = <<<<"a", " ", "b">>, <<",">>>>
    /\ Last.ocr_results.easyocr.word_count = 2
    /\ Last.ocr_results.easyocr.char_count = 3
    /\ Last.ocr_results.paddleocr.word_count = 0
    /\ Last.ocr_results.paddleocr.char_count = 1

\* ---- C28
\* a range [lo, hi) of a sequence of the given length
IsRange(range, length) == 0 <= range[1] /\ range[1] <= range[2] /\ range[2] <= length

IsEmptyRange(range) == range[1] = range[2]

\* C28: every entry of differences is a replace, a delete or an insert whose
\* ranges fit its kind: a replace has a non-empty range in both token
\* sequences, a delete a non-empty EasyOCR range and an empty PaddleOCR range,
\* an insert an empty EasyOCR range and a non-empty PaddleOCR range; and from
\* one entry to the next the ranges do not overlap and do not go back, in
\* either sequence.
C28_DifferencesWellFormed ==
    \A rec \in Records :
        LET diffs == rec.comparison.differences
        IN /\ \A n \in 1..Len(diffs) :
                  LET easy == diffs[n].easyocr_range
                      paddle == diffs[n].paddleocr_range
                  IN /\ IsRange(easy, Len(EasyWords(rec)))
                     /\ IsRange(paddle, Len(PaddleWords(rec)))
                     /\ diffs[n].type \in {"replace", "delete", "insert"}
                     /\ diffs[n].type = "replace" =>
                            ~IsEmptyRange(easy) /\ ~IsEmptyRange(paddle)
                     /\ diffs[n].type = "delete" =>
                            ~IsEmptyRange(easy) /\ IsEmptyRange(paddle)
                     /\ diffs[n].type = "insert" =>
                            IsEmptyRange(easy) /\ ~IsEmptyRange(paddle)
           /\ \A n \in 1..(Len(diffs) - 1) :
                  /\ diffs[n].easyocr_range[2] <= diffs[n + 1].easyocr_range[1]
                  /\ diffs[n].paddleocr_range[2] <= diffs[n + 1].paddleocr_range[1]

\* 'b a b' against 'a c b': an insert before the matched word and a delete
\* after it
C28_Witness ==
    /\ comparison_history # <<>>
    /\ Last.ocr_results.easyocr.text = Join(<<"b", "a", "b">>)
    /\ Last.ocr_results.paddleocr.text = Join(<<"a", "c", "b">>)
    /\ Len(Last.comparison.differences) = 2
    /\ Last.comparison.differences[1].type = "insert"
    /\ Last.comparison.differences[2].type = "delete"

====
